---- MODULE Spec2Model ----
(***************************************************************************)
(* Candidate-offer matching pipeline of the recruiting backend:           *)
(*   Backend/ai_service.py  text extraction, provider wrappers,           *)
(*                          calculate_similarity, generate_rationale      *)
(*   Backend/main.py        create_offer and upload_cvs                   *)
(*   Backend/database.py    the request-scoped session                    *)
(*                                                                         *)
(* Texts are sequences of one-character strings, vectors are sequences of *)
(* integers.  A float score is carried exactly, as the pair (num, den2)   *)
(* that stands for the real number 100 * num / sqrt(den2); IEEE rounding  *)
(* of the last bits is not modelled.  A Python call returns a record      *)
(* [ok, val]: ok = FALSE is an exception leaving the call.                *)
(***************************************************************************)
EXTENDS Integers, Sequences, FiniteSets, TLC

\* ---------------------------------------------------------------- bounds
MaxFiles == 2
MaxOffers == 1
MaxDim == 2
MaxComp == 1

\* ------------------------------------------------------ program constants
TranslateMaxChars == 2500
KeywordMaxChars == 3000
MaxSkills == 6

VARIABLES
    offers,        \* table joboffer: sequence of rows, id = position
    candidates,    \* table candidate: committed rows
    uploads,       \* files present in UPLOAD_DIR (file names)
    pc,            \* position of the upload_cvs request
    fault,         \* the call whose exception ended the request, or "none"
    offer,         \* upload_cvs: the row loaded by session.get
    nfiles,        \* upload_cvs: files the loop has taken from the list;
                   \* len(files) once the loop has ended
    pending,       \* upload_cvs: objects added to the session, not committed
    results,       \* upload_cvs: the list results
    text_es,       \* upload_cvs locals of the current iteration
    text_en,
    vec_cv,
    score,
    rationale,
    cv_keywords,   \* generate_rationale local
    calls,         \* provider calls issued by upload_cvs, in order
    commits,       \* number of session.commit() calls of the request
    response,      \* what upload_cvs returned
    simA, simB, simA0, simB0, simOut, simRev, simPc,  \* calculate_similarity harness
    ratCv, ratOffer, ratCommon, ratOut, ratPc  \* generate_rationale harness

pipeVars == <<offers, candidates, uploads, pc, fault, offer, nfiles, pending,
              results, text_es, text_en, vec_cv, score, rationale,
              cv_keywords, calls, commits, response>>
simVars == <<simA, simB, simA0, simB0, simOut, simRev, simPc>>
ratVars == <<ratCv, ratOffer, ratCommon, ratOut, ratPc>>
vars == <<pipeVars, simVars, ratVars>>

\* ------------------------------------------------------ Python primitives
Min(a, b) == IF a < b THEN a ELSE b

\* s[:n]
Take(s, n) == SubSeq(s, 1, Min(Len(s), n))

Return(v) == [ok |-> TRUE, val |-> v]
Raise(v) == [ok |-> FALSE, val |-> v]

RECURSIVE SumSeq(_)
SumSeq(s) == IF s = <<>> THEN 0 ELSE Head(s) + SumSeq(Tail(s))

\* sum(a * b for a, b in zip(vec1, vec2)): zip stops at the shorter vector
DotZip(vec1, vec2) ==
    SumSeq([i \in 1..Min(Len(vec1), Len(vec2)) |-> vec1[i] * vec2[i]])

\* sum(a * a for a in vec): the square of the magnitude
SqNorm(vec) == SumSeq([i \in 1..Len(vec) |-> vec[i] * vec[i]])

\* ------------------------------------------------------------ float scores
ScoreZero == [num |-> 0, den2 |-> 1]

\* s < t as real numbers, s = 100*s.num/sqrt(s.den2), den2 > 0
ScoreLess(s, t) ==
    IF s.num < 0
    THEN IF t.num >= 0 THEN TRUE
         ELSE s.num * s.num * t.den2 > t.num * t.num * s.den2
    ELSE IF t.num < 0 THEN FALSE
         ELSE s.num * s.num * t.den2 < t.num * t.num * s.den2

ScoreEq(s, t) == ~ScoreLess(s, t) /\ ~ScoreLess(t, s)
ScoreLeq(s, t) == ~ScoreLess(t, s)

\* the floats 100.0 and -100.0
Score100 == [num |-> 1, den2 |-> 1]
ScoreNeg100 == [num |-> -1, den2 |-> 1]

\* ------------------------------------------------- calculate_similarity
\* line 119 guard dropped, as a faulty variant would have it
calculate_similarity_noguard(vec1, vec2) ==
    LET dot == DotZip(vec1, vec2)
        den2 == SqNorm(vec1) * SqNorm(vec2)
    IN IF den2 = 0 THEN Raise(ScoreZero)
       ELSE Return([num |-> dot, den2 |-> den2])

\* magnitude of the second vector taken from the first
calculate_similarity_mag(vec1, vec2) ==
    IF vec1 = <<>> \/ vec2 = <<>> THEN Return(ScoreZero)
    ELSE LET dot == DotZip(vec1, vec2)
             den2 == SqNorm(vec1) * SqNorm(vec1)
         IN IF den2 = 0 THEN Return(ScoreZero)
            ELSE Return([num |-> dot, den2 |-> den2])

\* magnitudes not multiplied together: only the first one divides
calculate_similarity_onemag(vec1, vec2) ==
    IF vec1 = <<>> \/ vec2 = <<>> THEN Return(ScoreZero)
    ELSE LET dot == DotZip(vec1, vec2)
             den2 == SqNorm(vec1) * SqNorm(vec2)
         IN IF den2 = 0 THEN Return(ScoreZero)
            ELSE Return([num |-> dot, den2 |-> SqNorm(vec1)])

\* (dot / (mag1 * mag2)) * 100 with mag = sqrt(SqNorm); a division by a
\* zero product would raise ZeroDivisionError
calculate_similarity(vec1, vec2) ==
    IF vec1 = <<>> \/ vec2 = <<>> THEN Return(ScoreZero)
    ELSE LET dot == DotZip(vec1, vec2)
             den2 == SqNorm(vec1) * SqNorm(vec2)
         IN IF den2 = 0 THEN Return(ScoreZero)
            ELSE Return([num |-> dot, den2 |-> den2])

\* ------------------------------------------------------------- str methods
LowerLetters == <<"a", "b", "c", "d", "e", "f", "g">>
UpperLetters == <<"A", "B", "C", "D", "E", "F", "G">>
LetterIdx == 1..Len(LowerLetters)

IsLower(c) == \E i \in LetterIdx : LowerLetters[i] = c
IsUpper(c) == \E i \in LetterIdx : UpperLetters[i] = c
IsCased(c) == IsLower(c) \/ IsUpper(c)

LowerChar(c) ==
    IF IsUpper(c)
    THEN LowerLetters[CHOOSE i \in LetterIdx : UpperLetters[i] = c] ELSE c
UpperChar(c) ==
    IF IsLower(c)
    THEN UpperLetters[CHOOSE i \in LetterIdx : LowerLetters[i] = c] ELSE c

\* a JSON element of the keywords list that is not a string (no .lower())
NotAString == <<"<number>">>

\* str.lower()
Lower(k) == [i \in 1..Len(k) |-> LowerChar(k[i])]

\* str.title(): a cased character is upper-cased when it starts a word
\* (follows an uncased character or nothing) and lower-cased otherwise
Title(k) ==
    [i \in 1..Len(k) |->
        IF i = 1 \/ ~IsCased(k[i - 1]) THEN UpperChar(k[i]) ELSE LowerChar(k[i])]

\* ", ".join(items)
RECURSIVE Join(_)
Join(items) ==
    IF items = <<>> THEN <<>>
    ELSE IF Len(items) = 1 THEN Head(items)
    ELSE Head(items) \o <<",", " ">> \o Join(Tail(items))

\* the elements of a list, as a set
Elems(s) == {s[i] : i \in 1..Len(s)}

\* every order in which iterating a Python set can yield its elements
RECURSIVE Orders(_)
Orders(S) ==
    IF S = {} THEN {<<>>}
    ELSE UNION {{<<x>> \o t : t \in Orders(S \ {x})} : x \in S}

\* -------------------------------------------------------- provider wrappers
\* An HTTP exchange: status 0 stands for requests.post raising (network
\* error), otherwise the status code; body is the JSON field the wrapper reads.
HttpFail(empty) == {[status |-> 0, body |-> empty], [status |-> 500, body |-> empty]}

translate_text(text, resp) ==
    IF resp.status = 200 THEN Return(resp.body) ELSE Return(<<>>)

get_embedding(text, resp) ==
    IF resp.status = 200 THEN Return(resp.body) ELSE Return(<<>>)

\* extract_keywords without the try: the network error leaves the call
extract_keywords_notry(text, resp) ==
    IF resp.status = 200 THEN Return(resp.body)
    ELSE IF resp.status = 0 THEN Raise(<<>>) ELSE Return(<<>>)

extract_keywords(text, resp) ==
    IF resp.status = 200 THEN Return(resp.body) ELSE Return(<<>>)

Unparseable == <<"<fitz error>">>

\* extract_text_from_pdf without the try: the fitz error leaves the call
extract_text_from_pdf_notry(parsed) ==
    IF parsed = Unparseable THEN Raise(<<>>) ELSE Return(parsed)

\* extract_text_from_pdf: parsed is the text fitz yields page by page, or
\* the marker Unparseable when fitz raises

extract_text_from_pdf(parsed) ==
    IF parsed = Unparseable THEN Return(<<>>) ELSE Return(parsed)

\* ------------------------------------------------------ generate_rationale
GenericSentence ==
    <<"El analisis semantico indica similitud contextual general, aunque no se detectaron coincidencias terminologicas directas.">>
FallbackSentence == <<"Analisis completado basado en similitud vectorial.">>
MatchPrefix ==
    <<"Perfil compatible. Se detectaron coincidencias clave en competencias requeridas: ">>
MatchSuffix == <<". Esto valida la experiencia tecnica solicitada.">>

\* set([k.lower() for k in keywords]); k.lower() raises on a non-string
LowerSet(keywords) == {Lower(k) : k \in Elems(keywords)}
LowerRaises(keywords) == NotAString \in Elems(keywords)

\* the [:6] slice left out
FormattedSkills_all(common_skills) ==
    [i \in 1..Len(common_skills) |-> Title(common_skills[i])]

\* [s.title() for s in common_skills[:6]]
FormattedSkills(common_skills) ==
    LET firsts == Take(common_skills, MaxSkills)
    IN [i \in 1..Len(firsts) |-> Title(firsts[i])]

\* the sentence returned for one iteration order of the intersection
RationaleOf(common_skills) ==
    IF common_skills = <<>> THEN GenericSentence
    ELSE MatchPrefix \o Join(FormattedSkills(common_skills)) \o MatchSuffix

\* list(offer_set.intersection(cv_set)): every order the set can yield
CommonSkills(cv_kw, offer_kw) == Orders(LowerSet(offer_kw) \cap LowerSet(cv_kw))

\* generate_rationale, given the outcomes cv_r and offer_r of its two
\* extract_keywords calls.  Everything runs inside one try: an exception of
\* either call or of k.lower() selects the except branch.  The result is one
\* record for each iteration order: the local common_skills and the sentence.
generate_rationale(cv_r, offer_r) ==
    IF ~cv_r.ok \/ ~offer_r.ok \/ LowerRaises(cv_r.val) \/ LowerRaises(offer_r.val)
    THEN {[ok |-> TRUE, common |-> <<>>, text |-> FallbackSentence]}
    ELSE {[ok |-> TRUE, common |-> c, text |-> RationaleOf(c)] :
            c \in CommonSkills(cv_r.val, offer_r.val)}

\* ------------------------------------------------------------ environment
\* The texts and provider answers the runs are exercised with.
CvEs == <<"c", "v">>
CvEn == <<"C", "V">>
OfferEs == <<"o", "f">>
OfferEn == <<"O", "F">>

\* full_context of create_offer, built from the offer's fields
FullContext == OfferEs

\* what fitz can yield for an uploaded file
ParseOutcomes == {Unparseable, CvEs}

\* the payloads the wrappers post: text[:2500] and text[:3000]
TranslatePayload(text) == Take(text, TranslateMaxChars)
KeywordPayload(text) == Take(text, KeywordMaxChars)

Translation(sent) ==
    IF sent = CvEs THEN CvEn ELSE IF sent = OfferEs THEN OfferEn ELSE <<>>
Embeddings(sent) ==
    IF sent = CvEn THEN {<<1, 0>>, <<-1, 1>>}
    ELSE IF sent = OfferEn THEN {<<1, 0>>} ELSE {<<0, 0>>}
Keywords(sent) ==
    IF sent = CvEn THEN << <<"a">>, <<"b">> >>
    ELSE IF sent = OfferEn THEN << <<"A">>, <<"c">> >> ELSE <<>>

TranslateResponses(text) ==
    HttpFail(<<>>) \cup {[status |-> 200, body |-> Translation(TranslatePayload(text))]}
EmbedResponses(text) ==
    HttpFail(<<>>) \cup {[status |-> 200, body |-> v] : v \in Embeddings(text)}
KeywordResponses(text) ==
    HttpFail(<<>>) \cup {[status |-> 200, body |-> Keywords(KeywordPayload(text))]}

\* --------------------------------------------------------------- the rows
NoOffer == [id |-> 0, description_en |-> <<>>, vector |-> <<>>]

JobOffer(id, desc_en, vector) ==
    [id |-> id, description_en |-> desc_en, vector |-> vector]

Candidate(name, t_es, t_en, vec, sc, rat, offer_id) ==
    [name |-> name, text_extracted |-> t_es, text_en |-> t_en, vector |-> vec,
     match_score |-> sc, rationale |-> rat, job_offer_id |-> offer_id]

Call(file, op, arg) == [file |-> file, op |-> op, arg |-> arg]

\* results.sort(key=lambda x: x.match_score, reverse=True): list.sort is
\* stable, and with reverse=True equal keys still keep their original order
\* an insertion that puts a row before the rows of equal score
RECURSIVE InsertDesc_unstable(_, _)
InsertDesc_unstable(s, x) ==
    IF s = <<>> THEN <<x>>
    ELSE IF ScoreLeq(Head(s).match_score, x.match_score) THEN <<x>> \o s
    ELSE <<Head(s)>> \o InsertDesc_unstable(Tail(s), x)

RECURSIVE InsertDesc(_, _)
InsertDesc(s, x) ==
    IF s = <<>> THEN <<x>>
    ELSE IF ScoreLess(Head(s).match_score, x.match_score) THEN <<x>> \o s
    ELSE <<Head(s)>> \o InsertDesc(Tail(s), x)

RECURSIVE SortDesc(_)
SortDesc(s) ==
    IF s = <<>> THEN <<>>
    ELSE InsertDesc(SortDesc(SubSeq(s, 1, Len(s) - 1)), s[Len(s)])

\* ------------------------------------------------------------------- Init
PipeInit ==
    /\ offers = <<>>
    /\ candidates = <<>>
    /\ uploads = {}
    /\ pc = "idle"
    /\ fault = "none"
    /\ offer = NoOffer
    /\ nfiles = 0
    /\ pending = <<>>
    /\ results = <<>>
    /\ text_es = <<>>
    /\ text_en = <<>>
    /\ vec_cv = <<>>
    /\ score = ScoreZero
    /\ rationale = <<>>
    /\ cv_keywords = <<>>
    /\ calls = <<>>
    /\ commits = 0
    /\ response = <<>>

SimIdle ==
    /\ simA = <<>>
    /\ simB = <<>>
    /\ simA0 = <<>>
    /\ simB0 = <<>>
    /\ simOut = Return(ScoreZero)
    /\ simRev = Return(ScoreZero)
    /\ simPc = "off"
RatIdle ==
    /\ ratCv = [status |-> 0, body |-> <<>>]
    /\ ratOffer = [status |-> 0, body |-> <<>>]
    /\ ratCommon = <<>>
    /\ ratOut = <<>>
    /\ ratPc = "off"

Init == PipeInit /\ SimIdle /\ RatIdle

\* ------------------------------------------------------------ create_offer
\* POST /offers/: translate the context, embed the translation, insert and
\* commit the row.  An exception of a wrapper would leave no row behind.
create_offer ==
    /\ Len(offers) < MaxOffers
    /\ \E tr \in TranslateResponses(FullContext) :
         LET desc_en == translate_text(FullContext, tr)
         IN /\ desc_en.ok
            /\ \E er \in EmbedResponses(desc_en.val) :
                 LET vector == get_embedding(desc_en.val, er)
                 IN /\ vector.ok
                    /\ offers' = Append(offers,
                                   JobOffer(Len(offers) + 1, desc_en.val, vector.val))
    /\ UNCHANGED <<candidates, uploads, pc, fault, offer, nfiles, pending,
                   results, text_es, text_en, vec_cv, score, rationale,
                   cv_keywords, calls, commits, response>>
    /\ UNCHANGED <<simVars, ratVars>>

\* -------------------------------------------------------------- upload_cvs
\* index of the file the loop is at
CurFile == nfiles

\* an exception leaves upload_cvs: get_session closes the session, which
\* discards what was added and not committed
Abort(f) ==
    /\ pc' = "aborted"
    /\ fault' = f
    /\ pending' = <<>>

\* lines 112-118: load the offer or answer 404; the list of files has at
\* least one element (File(...) is a required field) and the loop takes it
upload_start ==
    /\ pc = "idle"
    /\ \E offer_id \in 1..MaxOffers :
         IF offer_id <= Len(offers)
         THEN /\ offer' = offers[offer_id]
              /\ nfiles' = 1
              /\ pc' = "store"
              /\ fault' = fault
         ELSE /\ pc' = "notfound"
              /\ fault' = "404"
              /\ UNCHANGED <<offer, nfiles>>
    /\ UNCHANGED <<offers, candidates, uploads, pending, results, text_es,
                   text_en, vec_cv, score, rationale, cv_keywords, calls,
                   commits, response>>
    /\ UNCHANGED <<simVars, ratVars>>

\* lines 122-126: write the file; open/write are not guarded
store_file ==
    /\ pc = "store"
    /\ \/ /\ uploads' = uploads \cup {CurFile}
          /\ pc' = "extract"
          /\ UNCHANGED <<fault, pending>>
       \/ /\ Abort("storage")
          /\ UNCHANGED uploads
    /\ UNCHANGED <<offers, candidates, offer, nfiles, results, text_es,
                   text_en, vec_cv, score, rationale, cv_keywords, calls,
                   commits, response>>
    /\ UNCHANGED <<simVars, ratVars>>

\* line 129
extract_text ==
    /\ pc = "extract"
    /\ \E parsed \in ParseOutcomes :
         LET r == extract_text_from_pdf(parsed)
         IN IF r.ok
            THEN /\ text_es' = r.val
                 /\ pc' = "translate"
                 /\ UNCHANGED <<fault, pending>>
            ELSE /\ Abort("extract")
                 /\ UNCHANGED text_es
    /\ UNCHANGED <<offers, candidates, uploads, offer, nfiles, results,
                   text_en, vec_cv, score, rationale, cv_keywords, calls,
                   commits, response>>
    /\ UNCHANGED <<simVars, ratVars>>

\* an empty translation taken as a reason not to ask for an embedding
translate_cv_shortcut ==
    /\ pc = "translate"
    /\ calls' = Append(calls, Call(CurFile, "translate", text_es))
    /\ \E resp \in TranslateResponses(text_es) :
         LET r == translate_text(text_es, resp)
         IN /\ text_en' = r.val
            /\ IF r.val = <<>>
               THEN vec_cv' = <<>> /\ pc' = "score"
               ELSE vec_cv' = vec_cv /\ pc' = "embed"
    /\ UNCHANGED <<offers, candidates, uploads, fault, offer, nfiles, pending,
                   results, text_es, score, rationale, cv_keywords,
                   commits, response>>
    /\ UNCHANGED <<simVars, ratVars>>

\* line 134
translate_cv ==
    /\ pc = "translate"
    /\ calls' = Append(calls, Call(CurFile, "translate", text_es))
    /\ \E resp \in TranslateResponses(text_es) :
         LET r == translate_text(text_es, resp)
         IN IF r.ok
            THEN /\ text_en' = r.val
                 /\ pc' = "embed"
                 /\ UNCHANGED <<fault, pending>>
            ELSE /\ Abort("translate")
                 /\ UNCHANGED text_en
    /\ UNCHANGED <<offers, candidates, uploads, offer, nfiles, results,
                   text_es, vec_cv, score, rationale, cv_keywords,
                   commits, response>>
    /\ UNCHANGED <<simVars, ratVars>>

\* line 135
embed_cv ==
    /\ pc = "embed"
    /\ calls' = Append(calls, Call(CurFile, "embed", text_en))
    /\ \E resp \in EmbedResponses(text_en) :
         LET r == get_embedding(text_en, resp)
         IN IF r.ok
            THEN /\ vec_cv' = r.val
                 /\ pc' = "score"
                 /\ UNCHANGED <<fault, pending>>
            ELSE /\ Abort("embed")
                 /\ UNCHANGED vec_cv
    /\ UNCHANGED <<offers, candidates, uploads, offer, nfiles, results,
                   text_es, text_en, score, rationale, cv_keywords,
                   commits, response>>
    /\ UNCHANGED <<simVars, ratVars>>

\* the offer row taken over by the vector of the file at hand
score_cv_rewrite ==
    /\ pc = "score"
    /\ score' = calculate_similarity(vec_cv, offer.vector).val
    /\ offer' = [offer EXCEPT !.vector = vec_cv]
    /\ pc' = "kw_cv"
    /\ UNCHANGED <<offers, candidates, uploads, fault, nfiles, pending,
                   results, text_es, text_en, vec_cv, rationale, cv_keywords,
                   calls, commits, response>>
    /\ UNCHANGED <<simVars, ratVars>>

\* line 138
score_cv ==
    /\ pc = "score"
    /\ LET r == calculate_similarity(vec_cv, offer.vector)
       IN IF r.ok
          THEN /\ score' = r.val
               /\ pc' = "kw_cv"
               /\ UNCHANGED <<fault, pending>>
          ELSE /\ Abort("similarity")
               /\ UNCHANGED score
    /\ UNCHANGED <<offers, candidates, uploads, offer, nfiles, results,
                   text_es, text_en, vec_cv, rationale, cv_keywords, calls,
                   commits, response>>
    /\ UNCHANGED <<simVars, ratVars>>

\* line 141 into generate_rationale, line 96; an exception of the call
\* would go to the except of line 113 and skip line 97
keywords_cv ==
    /\ pc = "kw_cv"
    /\ calls' = Append(calls, Call(CurFile, "keywords", text_en))
    /\ \E resp \in KeywordResponses(text_en) :
         LET r == extract_keywords(text_en, resp)
         IN IF r.ok
            THEN /\ cv_keywords' = r.val
                 /\ pc' = "kw_offer"
                 /\ UNCHANGED <<fault, pending, rationale>>
            ELSE \E g \in generate_rationale(r, r) :
                    IF g.ok
                    THEN /\ rationale' = g.text
                         /\ pc' = "append"
                         /\ UNCHANGED <<fault, pending, cv_keywords>>
                    ELSE /\ Abort("rationale")
                         /\ UNCHANGED <<rationale, cv_keywords>>
    /\ UNCHANGED <<offers, candidates, uploads, offer, nfiles, results,
                   text_es, text_en, vec_cv, score, commits, response>>
    /\ UNCHANGED <<simVars, ratVars>>

\* generate_rationale, lines 97-115, and its return to line 141
keywords_offer ==
    /\ pc = "kw_offer"
    /\ calls' = Append(calls, Call(CurFile, "keywords", offer.description_en))
    /\ \E resp \in KeywordResponses(offer.description_en) :
         LET r == extract_keywords(offer.description_en, resp)
         IN \E g \in generate_rationale(Return(cv_keywords), r) :
              IF g.ok
              THEN /\ rationale' = g.text
                   /\ pc' = "append"
                   /\ UNCHANGED <<fault, pending>>
              ELSE /\ Abort("rationale")
                   /\ UNCHANGED rationale
    /\ cv_keywords' = <<>>
    /\ UNCHANGED <<offers, candidates, uploads, offer, nfiles, results,
                   text_es, text_en, vec_cv, score, commits, response>>
    /\ UNCHANGED <<simVars, ratVars>>

\* a commit inside the loop, after each session.add
append_candidate_autocommit ==
    /\ pc = "append"
    /\ LET cand == Candidate(CurFile, text_es, text_en, vec_cv, score,
                             rationale, offer.id)
       IN /\ candidates' = Append(candidates, cand)
          /\ results' = Append(results, cand)
    /\ \/ /\ nfiles < MaxFiles
          /\ nfiles' = nfiles + 1
          /\ pc' = "store"
       \/ /\ nfiles' = nfiles
          /\ pc' = "commit"
    /\ UNCHANGED <<offers, uploads, fault, offer, pending,
                   text_es, text_en, vec_cv, score, rationale, cv_keywords,
                   calls, commits, response>>
    /\ UNCHANGED <<simVars, ratVars>>

\* lines 148-162, and the loop of line 118 taking the next file of the list
\* or finding the list exhausted
append_candidate ==
    /\ pc = "append"
    /\ LET cand == Candidate(CurFile, text_es, text_en, vec_cv, score,
                             rationale, offer.id)
       IN /\ pending' = Append(pending, cand)
          /\ results' = Append(results, cand)
    /\ \/ /\ nfiles < MaxFiles
          /\ nfiles' = nfiles + 1
          /\ pc' = "store"
       \/ /\ nfiles' = nfiles
          /\ pc' = "commit"
    /\ UNCHANGED <<offers, candidates, uploads, fault, offer,
                   text_es, text_en, vec_cv, score, rationale, cv_keywords,
                   calls, commits, response>>
    /\ UNCHANGED <<simVars, ratVars>>

\* line 164: the one transaction of the request; a failing commit is rolled
\* back and its exception leaves upload_cvs
commit_session ==
    /\ pc = "commit"
    /\ commits' = commits + 1
    /\ \/ /\ candidates' = candidates \o pending
          /\ pending' = <<>>
          /\ pc' = "sort"
          /\ UNCHANGED fault
       \/ /\ Abort("commit")
          /\ UNCHANGED candidates
    /\ UNCHANGED <<offers, uploads, offer, nfiles, results, text_es, text_en,
                   vec_cv, score, rationale, cv_keywords, calls, response>>
    /\ UNCHANGED <<simVars, ratVars>>

\* lines 167-169
sort_and_return ==
    /\ pc = "sort"
    /\ results' = SortDesc(results)
    /\ response' = SortDesc(results)
    /\ pc' = "done"
    /\ UNCHANGED <<offers, candidates, uploads, fault, offer, nfiles, pending,
                   text_es, text_en, vec_cv, score, rationale, cv_keywords,
                   calls, commits>>
    /\ UNCHANGED <<simVars, ratVars>>

Next ==
    \/ create_offer
    \/ upload_start
    \/ store_file
    \/ extract_text
    \/ translate_cv
    \/ embed_cv
    \/ score_cv
    \/ keywords_cv
    \/ keywords_offer
    \/ append_candidate
    \/ commit_session
    \/ sort_and_return

Spec == Init /\ [][Next]_vars

\* --------------------------------------- calculate_similarity on its own
\* every vector of at most MaxDim components in -MaxComp..MaxComp; simA and
\* simB are the two list objects passed, simA0 and simB0 their contents
\* before the first call
Vectors == UNION {[1..n -> (-MaxComp)..MaxComp] : n \in 0..MaxDim}

SimInit ==
    /\ PipeInit /\ RatIdle
    /\ simA \in Vectors
    /\ simB \in Vectors
    /\ simA0 = simA
    /\ simB0 = simB
    /\ simOut = Return(ScoreZero)
    /\ simRev = Return(ScoreZero)
    /\ simPc = "call"

\* calculate_similarity(simA, simB)
sim_call ==
    /\ simPc = "call"
    /\ simOut' = calculate_similarity(simA, simB)
    /\ simPc' = "returned"
    /\ UNCHANGED <<simA, simB, simA0, simB0, simRev>>
    /\ UNCHANGED <<pipeVars, ratVars>>

\* calculate_similarity(simB, simA), the same objects the other way round
sim_call_swapped ==
    /\ simPc = "returned"
    /\ simRev' = calculate_similarity(simB, simA)
    /\ simPc' = "both"
    /\ UNCHANGED <<simA, simB, simA0, simB0, simOut>>
    /\ UNCHANGED <<pipeVars, ratVars>>

SimNext == sim_call \/ sim_call_swapped

SpecSim == SimInit /\ [][SimNext]_vars

\* ------------------------------------------ generate_rationale on its own
Word(c) == <<c>>
KeywordSamples ==
    { <<>>,
      << Word("a"), Word("b") >>,
      << Word("A"), Word("c") >>,
      << Word("d"), Word("e") >>,
      << <<"a", " ", "b">>, <<"c", "D">> >>,
      << <<"A", " ", "B">>, <<"C", "d">>, <<"c", "d">> >>,
      [i \in LetterIdx |-> Word(LowerLetters[i])],
      [i \in LetterIdx |-> Word(UpperLetters[i])] \o << Word("a") >>,
      << Word("a"), NotAString >> }

RatResponses == HttpFail(<<>>) \cup {[status |-> 200, body |-> k] : k \in KeywordSamples}

RatInit ==
    /\ PipeInit /\ SimIdle
    /\ ratCv \in RatResponses
    /\ ratOffer \in RatResponses
    /\ ratCommon = <<>>
    /\ ratOut = <<>>
    /\ ratPc = "call"

\* generate_rationale(CvEn, OfferEn) with the provider answering ratCv to
\* the first keywords request and ratOffer to the second
rat_call ==
    /\ ratPc = "call"
    /\ LET cv_r == extract_keywords(CvEn, ratCv)
           offer_r == IF cv_r.ok THEN extract_keywords(OfferEn, ratOffer) ELSE cv_r
       IN \E g \in generate_rationale(cv_r, offer_r) :
            /\ ratCommon' = g.common
            /\ ratOut' = g.text
            /\ ratPc' = IF g.ok THEN "returned" ELSE "raised"
    /\ UNCHANGED <<ratCv, ratOffer>>
    /\ UNCHANGED <<pipeVars, simVars>>

RatNext == rat_call

SpecRat == RatInit /\ [][RatNext]_vars

\* ================================================================ claims
InLoop == {"store", "extract", "translate", "embed", "score", "kw_cv",
           "kw_offer", "append"}

\* a step of the upload_cvs request
UploadStep ==
    \/ store_file \/ extract_text \/ translate_cv \/ embed_cv \/ score_cv
    \/ keywords_cv \/ keywords_offer \/ append_candidate \/ commit_session
    \/ sort_and_return

\* the row of the file uploaded at position j
RowOf(rows, j) == CHOOSE r \in Elems(rows) : r.name = j

\* C1: whatever files fail to parse and whatever provider calls fail, the
\* request never stops inside the loop or before the commit, is ended by an
\* exception only when the storage write or the commit fails, and returns one
\* result for each of the nfiles submitted files.
C1_OneResultPerFile ==
    /\ pc \in InLoop \cup {"commit"} => ENABLED UploadStep
    /\ pc = "aborted" => fault \in {"storage", "commit"}
    /\ pc = "done" =>
         /\ Len(response) = nfiles
         /\ {response[i].name : i \in 1..Len(response)} = 1..nfiles

\* a finished batch whose first file failed to parse and got no embedding,
\* followed by a file that was translated
C1_Witness ==
    /\ pc = "done"
    /\ \E i, j \in 1..Len(candidates) :
         /\ i < j
         /\ candidates[i].text_extracted = <<>>
         /\ candidates[i].vector = <<>>
         /\ candidates[j].text_en # <<>>

\* C2: the response holds exactly the rows of the batch, no score is followed
\* by a greater one, and rows of equal score come in upload order.
C2_StableDescending ==
    pc = "done" =>
      /\ Len(response) = nfiles
      /\ {response[i].name : i \in 1..Len(response)} = 1..nfiles
      /\ \A i \in 1..Len(response) : response[i] = candidates[response[i].name]
      /\ \A i, j \in 1..Len(response) :
           i < j =>
             /\ ScoreLeq(response[j].match_score, response[i].match_score)
             /\ ScoreEq(response[j].match_score, response[i].match_score)
                  => response[i].name < response[j].name

\* two files, the second with the greater score: it is returned first
C2_Witness ==
    /\ pc = "done"
    /\ Len(response) = 2
    /\ <<response[1].name, response[2].name>> = <<2, 1>>
    /\ ScoreLess(response[2].match_score, response[1].match_score)
    /\ ScoreLess(response[2].match_score, ScoreZero)

\* C3: a row whose embedding is missing, or that is scored against an empty
\* offer vector, or one of whose two vectors has magnitude zero, has score
\* 0.0, and the similarity computation never raises.
C3_DegenerateScoresZero ==
    /\ fault # "similarity"
    /\ \A i \in 1..Len(results) :
         (\/ results[i].vector = <<>>
          \/ offer.vector = <<>>
          \/ SqNorm(results[i].vector) = 0
          \/ SqNorm(offer.vector) = 0) => results[i].match_score = ScoreZero

\* a finished batch against an offer with a vector, with one row without
\* embedding and one row whose embedding has magnitude zero
C3_Witness ==
    /\ pc = "done"
    /\ SqNorm(offer.vector) > 0
    /\ \E i, j \in 1..Len(results) :
         /\ results[i].vector = <<>>
         /\ results[j].vector # <<>>
         /\ SqNorm(results[j].vector) = 0

\* the keyword lists generate_rationale works on in the harness
RatCvKeywords == IF ratCv.status = 200 THEN ratCv.body ELSE <<>>
RatOfferKeywords == IF ratOffer.status = 200 THEN ratOffer.body ELSE <<>>
RatProviderFailed == ratCv.status # 200 \/ ratOffer.status # 200
RatMalformed == LowerRaises(RatCvKeywords) \/ LowerRaises(RatOfferKeywords)
RatIntersection == LowerSet(RatOfferKeywords) \cap LowerSet(RatCvKeywords)

\* C4 as stated: a failed keyword extraction yields the "completed via vector
\* similarity" sentence.
C4_FailureGivesFallback ==
    /\ ratPc # "raised"
    /\ (ratPc = "returned" /\ RatProviderFailed) => ratOut = FallbackSentence

\* C4 amended: generate_rationale never raises; a failed keyword extraction
\* yields the generic-compatibility sentence, and the "completed via vector
\* similarity" sentence is returned only for a keyword that is not a string.
C4_FailureGivesGeneric ==
    /\ ratPc # "raised"
    /\ (ratPc = "returned" /\ RatProviderFailed /\ ~RatMalformed)
          => ratOut = GenericSentence
    /\ (ratPc = "returned" /\ ratOut = FallbackSentence) => RatMalformed

\* both keyword requests failed and generate_rationale has returned
C4_Witness ==
    /\ ratPc = "returned"
    /\ ratCv.status = 0
    /\ ratOffer.status = 500
    /\ ratOut = GenericSentence

\* C5 as stated: every score lies in [0, 100].
C5_ScoreIn0To100 ==
    simPc # "call" =>
      /\ simOut.ok
      /\ ScoreLeq(ScoreZero, simOut.val)
      /\ ScoreLeq(simOut.val, Score100)

\* C5 amended: every score lies in [-100, 100], and in [0, 100] when no
\* component of either vector is negative.
C5_ScoreInMinus100To100 ==
    simPc # "call" =>
      /\ simOut.ok
      /\ ScoreLeq(ScoreNeg100, simOut.val)
      /\ ScoreLeq(simOut.val, Score100)
      /\ ((\A i \in 1..Len(simA) : simA[i] >= 0) /\ (\A i \in 1..Len(simB) : simB[i] >= 0))
            => ScoreLeq(ScoreZero, simOut.val)

\* vectors of different lengths with a negative score
C5_Witness ==
    /\ simPc = "returned"
    /\ Len(simA) # Len(simB)
    /\ ScoreLess(simOut.val, ScoreZero)

\* C6: with string keywords, an empty intersection of the lower-cased lists
\* gives the generic sentence; otherwise the sentence names n <= 6 skills,
\* joined by ", ", each the title-cased form of a different keyword of the
\* intersection, and no two of them equal.
C6_RationaleNamesCommonSkills ==
    (ratPc = "returned" /\ ~RatMalformed) =>
      IF RatIntersection = {}
      THEN ratOut = GenericSentence
      ELSE /\ Elems(ratCommon) = RatIntersection
           /\ Len(ratCommon) = Cardinality(RatIntersection)
           /\ \E n \in 1..Min(6, Len(ratCommon)) :
                /\ ratOut = MatchPrefix
                              \o Join([i \in 1..n |-> Title(ratCommon[i])])
                              \o MatchSuffix
                /\ \A i, j \in 1..n :
                     i # j => Title(ratCommon[i]) # Title(ratCommon[j])

\* more than six keywords in common, given in different cases
C6_Witness ==
    /\ ratPc = "returned"
    /\ Cardinality(RatIntersection) > 6
    /\ ratCv.body # ratOffer.body
    /\ ratOut # GenericSentence

\* C7: for non-zero vectors of equal length the score does not depend on the
\* order of the arguments, the score of a vector with itself is 100, and the
\* call leaves both vectors as they were.
C7_Symmetric ==
    /\ simA = simA0
    /\ simB = simB0
    /\ (/\ simPc = "both"
        /\ Len(simA) = Len(simB)
        /\ SqNorm(simA) > 0
        /\ SqNorm(simB) > 0) =>
         /\ simOut.ok /\ simRev.ok
         /\ ScoreEq(simOut.val, simRev.val)
         /\ simA = simB => ScoreEq(simOut.val, Score100)

\* two different vectors of two components, not orthogonal, scored both ways
C7_Witness ==
    /\ simPc = "both"
    /\ Len(simA) = 2 /\ Len(simB) = 2
    /\ simA # simB
    /\ SqNorm(simA) # SqNorm(simB)
    /\ simOut.val.num # 0

\* C8: from the moment upload_cvs has loaded the offer, the loaded row and the
\* stored row stay equal, every row of the batch is scored against that
\* vector, and the second keywords request of every file is for that context;
\* no step changes the loaded row or a row already in the table.
C8_OfferReadOnly ==
    /\ [](pc \notin {"idle", "notfound"} =>
           /\ offer.id \in 1..Len(offers)
           /\ offers[offer.id] = offer
           /\ \A i \in 1..Len(results) :
                /\ results[i].job_offer_id = offer.id
                /\ results[i].match_score
                     = calculate_similarity(results[i].vector, offer.vector).val
           /\ \A k \in 1..Len(calls) :
                k % 4 = 0 => calls[k].arg = offer.description_en)
    /\ [][/\ pc \notin {"idle", "notfound"} => offer' = offer
          /\ \A i \in 1..Len(offers) : Len(offers') >= i /\ offers'[i] = offers[i]]_vars

\* a finished batch of rows with different vectors against one offer vector
C8_Witness ==
    /\ pc = "done"
    /\ offer.vector # <<>>
    /\ offer.description_en # <<>>
    /\ \E i, j \in 1..Len(results) :
         /\ results[i].vector # results[j].vector
         /\ results[i].vector # <<>>
         /\ results[j].vector # <<>>

ProviderOrder == <<"translate", "embed", "keywords", "keywords">>

\* C9: the calls come in groups of four, translate, embed, keywords,
\* keywords, one group per file in upload order; their arguments are the
\* extracted text, the translation, the translation and the offer context; no
\* call of a group is skipped, and no call belongs to a file beyond the one
\* after the last appended row.
C9_FourCallsPerFile ==
    /\ \A k \in 1..Len(calls) :
         /\ calls[k].op = ProviderOrder[((k - 1) % 4) + 1]
         /\ calls[k].file = ((k - 1) \div 4) + 1
         /\ calls[k].file <= Len(results) + 1
    /\ \A j \in 1..Len(results) :
         LET c == RowOf(results, j)
         IN /\ Len(calls) >= 4 * j
            /\ calls[4 * j - 3].arg = c.text_extracted
            /\ calls[4 * j - 2].arg = c.text_en
            /\ calls[4 * j - 1].arg = c.text_en
            /\ calls[4 * j].arg = offer.description_en
    /\ pc = "append" =>
         /\ Len(calls) = 4 * CurFile
         /\ calls[4 * CurFile - 3].arg = text_es
         /\ calls[4 * CurFile - 2].arg = text_en
         /\ calls[4 * CurFile - 1].arg = text_en
         /\ calls[4 * CurFile].arg = offer.description_en
    /\ pc \in {"commit", "sort", "done"} => Len(calls) = 4 * nfiles

\* a second file whose translation and embedding both failed, with all four
\* calls made
C9_Witness ==
    /\ pc = "append"
    /\ Len(results) >= 1
    /\ text_es # <<>>
    /\ text_en = <<>>
    /\ vec_cv = <<>>
    /\ Len(calls) = 4 * CurFile

\* C10: no row of the batch is in the table before the commit, which is made
\* once and after the last file; a request ended by an exception leaves no row
\* in the table and none in the session, while the files written stay.
C10_AllOrNothing ==
    /\ commits <= 1
    /\ commits = 1 => Len(results) = nfiles
    /\ pc \in InLoop \cup {"commit"} => candidates = <<>> /\ commits = 0
    /\ pc \in {"sort", "done"} =>
         /\ commits = 1
         /\ pending = <<>>
         /\ Len(candidates) = nfiles
    /\ pc = "aborted" =>
         /\ candidates = <<>>
         /\ pending = <<>>
         /\ \A j \in 1..Len(results) : j \in uploads

\* the storage write of a later file raised after a row had been added
C10_Witness ==
    /\ pc = "aborted"
    /\ fault = "storage"
    /\ Len(results) >= 1
    /\ uploads # {}

====
